---- MODULE Spec2Model ----
(***************************************************************************)
(* SyncSys: a file-drop request/response protocol between clients and a    *)
(* processor that owns a SQLite database.                                  *)
(*                                                                         *)
(* Seven specifications share this module:                                 *)
(*   SpecDb       the execution engine (DatabaseManager.execute_request)   *)
(*   SpecTx       _execute_transaction run on a given list of              *)
(*                sub-operations                                           *)
(*   SpecPool     the two thread pools between the detection of a request  *)
(*                file and the end of its handling, their threads kept     *)
(*                running                                                  *)
(*   SpecQuery    the query methods of SyncClient and the statements the   *)
(*                engine builds for them                                   *)
(*   SpecShare    two clients with their own ids on one responses folder   *)
(*   SpecWatch    one FileMonitor over one folder (watchdog and polling)   *)
(*   SpecProto    SyncClient calls, the requests/responses folders and     *)
(*                SyncProcessor._handle_request                            *)
(* FairProto and FairProcessor are SpecProto with the caller threads,      *)
(* respectively the processor's pool threads, kept running.                *)
(* Each specification leaves the variables of the others at their initial  *)
(* values.                                                                 *)
(***************************************************************************)
EXTENDS Integers, Sequences, FiniteSets, TLC

VARIABLES
  \* ---- execution engine (syncsys_core.py, DatabaseManager)
  db,        \* the committed content of the database file: [rows, log]
  lock,      \* DatabaseManager._lock: the worker holding it, or NoWorker
  conn,      \* per worker: the sqlite3 connection of its execute_request call
  epc,       \* per worker: position inside execute_request
  ereq,      \* per worker: the request being executed
  eidx,      \* per worker: index of the next sub-operation of a TRANSACTION
  epre,      \* per worker: rows of the database when execute_request was entered
  efail,     \* per worker: index of the sub-operation that raised, as reported by
             \* the ERROR result (0: none)
  etouched,  \* per worker: the transaction had uncommitted changes when it failed
  edata,     \* per worker: the result _execute_operation has built: rows_affected,
             \* with the number of rows the WHERE of the statement matched
  eres,      \* per worker: status returned by the last execute_request, "RAISED"
             \* when it ended with an exception
  \* ---- one FileMonitor over one folder (syncsys_core.py, FileMonitor)
  fsize,            \* per file name: bytes written so far, NoSize when the file is absent
  use_watchdog,     \* FileMonitor._use_watchdog
  wobserver,        \* FileMonitor._observer is set
  wpc,              \* position of the monitor: new, scanned, observing, polling,
                    \* stopping, stopped, stop_raised
  processed_files,  \* FileMonitor._processed_files
  wevents,          \* file names with a create/modify event the observer has not handled
  hfile,            \* the file the observer thread is in _handle_file_event for
  hlast,            \* last_size of _wait_for_file_complete
  hchecks,          \* iterations of _wait_for_file_complete so far
  wqueue,           \* callbacks submitted to FileMonitor._executor, not yet run
  wcalls,           \* per file name: number of callback invocations
  wpartial,         \* per file name: a callback ran while the file was not fully written
  \* ---- SyncClient, the shared folders, SyncProcessor
  retry_attempts,   \* SyncClient.retry_attempts (client.retry_attempts of the configuration)
  callers,          \* the caller threads that make a call
  alien_on,         \* another writer drops a file into the requests folder
  email_on,         \* SyncProcessor.email_sender is set and enabled
  stop_on,          \* SyncProcessor.stop() is called at some point of the run
  reqf,             \* per request file: absent, partial, a complete body, deleted
  p_watchdog,       \* processor's FileMonitor._use_watchdog
  p_processed,      \* processor's FileMonitor._processed_files
  p_queue,          \* request files submitted to SyncProcessor.executor, not yet handled
  prun,             \* the processor: running, stopping (inside stop()), stopped
  hst,              \* per request file: position of _handle_request
  hcount,           \* per request file: number of _handle_request calls
  hread,            \* per request file: what _handle_request read from it
  ndel,             \* per request file: number of times the processor unlinked it
  iofail,           \* per request file: opening a response file for it failed
  unlfail,          \* per request file: an unlink of it by the processor raised
  hnote,            \* per request file: the part of the notification sink that raised
                    \* after the request was executed with SUCCESS, or "none"
  resp,             \* per request file: the response file written for it
  nresp,            \* per request file: number of response files written for it
  c_watchdog,       \* client's FileMonitor._use_watchdog
  cmon,             \* client's response monitor: off, scanned, on
  c_processed,      \* client's FileMonitor._processed_files
  c_events,         \* response files with an event the client's observer has not handled
  c_queue,          \* response files whose callback is submitted, not yet run
  cb,               \* per response file: position and outcome of _handle_response_file
  cbad,             \* per response file: the callback failed to read it
  response_events,  \* SyncClient._response_events: none, clear, set
  pending_requests, \* SyncClient._pending_requests
  cpc,              \* per call: position in _execute_with_retry
  catt,             \* per call: number of the current attempt
  cres,             \* per call: result of the last attempt
  cgot,             \* per request id: the request id of the response its attempt returned
  \* ---- the query methods of SyncClient (syncsys_client.py)
  qtable,           \* the rows of the table the methods are called on
  qpc,              \* position of the call: idle, sent, answered
  qreq,             \* the call: method, where argument, where map of the request
  qres,             \* the QueryResult: of _execute_with_retry, then of the method
  \* ---- two SyncClients on one responses folder (syncsys_client.py)
  sclients,         \* the client ids of the two clients
  sresp,            \* per response file <<client id, request id>>: absent, present, deleted
  sseen,            \* per client: _processed_files of its response monitor
  staken,           \* per response file: the client whose callback unlinked it
  \* ---- one TRANSACTION (syncsys_core.py, DatabaseManager._execute_transaction)
  txops,            \* request.data['operations']: the list of sub-operations
  txi,              \* index of the next sub-operation (i + 1 of the loop)
  txconn,           \* the connection the transaction runs on
  txdb,             \* the committed content of the database file
  txresults,        \* the list results
  txpc,             \* idle, loop, committed (the dict was returned), failed (raised)
  \* ---- the pools of FileMonitor and SyncProcessor (syncsys_core.py)
  pl_detected,      \* number of request files the monitor has detected so far
  pl_wqueue,        \* work queue of FileMonitor._executor: callbacks submitted
  pl_wrunning,      \* files whose callback runs on a thread of FileMonitor._executor
  pl_pqueue,        \* work queue of SyncProcessor.executor: _handle_request submitted
  pl_prunning,      \* files whose _handle_request runs on a thread of the executor
  pl_handled        \* files whose _handle_request has returned

dbVars == <<db, lock, conn, epc, ereq, eidx, epre, efail, etouched, edata, eres>>

watchVars == <<fsize, use_watchdog, wobserver, wpc, processed_files, wevents, hfile, hlast, hchecks,
               wqueue, wcalls, wpartial>>

cfgVars == <<retry_attempts, callers, alien_on, email_on, stop_on, p_watchdog, c_watchdog>>
pwVars == <<p_processed, p_queue, prun>>
phVars == <<hst, hcount, hread, ndel, iofail, unlfail, hnote, nresp>>
cwVars == <<cmon, c_processed, c_events, c_queue>>
ccbVars == <<cb, cbad, response_events, pending_requests>>
callVars == <<cpc, catt, cres, cgot>>
protoVars == <<cfgVars, reqf, pwVars, phVars, resp, cwVars, ccbVars, callVars>>

queryVars == <<qtable, qpc, qreq, qres>>

shareVars == <<sclients, sresp, sseen, staken>>

txVars == <<txops, txi, txconn, txdb, txresults, txpc>>

poolVars == <<pl_detected, pl_wqueue, pl_wrunning, pl_pqueue, pl_prunning, pl_handled>>

vars == <<dbVars, watchVars, protoVars, queryVars, shareVars, txVars, poolVars>>

\* what the actions of one component leave alone
notDb == <<watchVars, protoVars, queryVars, shareVars, txVars, poolVars>>
notWatch == <<dbVars, protoVars, queryVars, shareVars, txVars, poolVars>>
notProto == <<dbVars, watchVars, queryVars, shareVars, txVars, poolVars>>
notQuery == <<dbVars, watchVars, protoVars, shareVars, txVars, poolVars>>
notShare == <<dbVars, watchVars, protoVars, queryVars, txVars, poolVars>>
notTx == <<dbVars, watchVars, protoVars, queryVars, shareVars, poolVars>>
notPool == <<dbVars, watchVars, protoVars, queryVars, shareVars, txVars>>

-----------------------------------------------------------------------------
(* Execution engine                                                        *)

MaxKey == 2
MaxOps == 3

Keys == 1..MaxKey
ReqIds == {1, 2}
Workers == {"w1", "w2"}
NoWorker == "none"

\* a row is absent, as inserted, or updated since
NoRow == "absent"
Inserted == "inserted"
Updated == "updated"

EmptyRows == [k \in Keys |-> NoRow]
\* sync_log: per request id the status column of the rows carrying it
EmptyLog == [r \in ReqIds |-> <<>>]
EmptyDb == [rows |-> EmptyRows, log |-> EmptyLog]

NoReq == [request_id |-> 0, operation |-> "none"]
ClosedConn == [work |-> EmptyDb, in_tx |-> FALSE]

\* operation values a request file can carry; "BOGUS" is any other string
Operations == {"SELECT", "INSERT", "UPDATE", "DELETE", "TRANSACTION", "BOGUS"}
\* type values of a sub-operation; "SQL" stands for any type the transaction
\* does not support, "MISSING" for a sub-operation without type/table/data
SubOpTypes == {"INSERT", "UPDATE", "DELETE", "SELECT", "SQL", "MISSING"}

\* _execute_insert: the table has a uniqueness constraint on the key
execute_insert_raises(rows, k) == rows[k] # NoRow
execute_insert(rows, k) == [rows EXCEPT ![k] = Inserted]

\* _execute_update: zero matching rows is not an error
execute_update(rows, k) == IF rows[k] # NoRow THEN [rows EXCEPT ![k] = Updated] ELSE rows

\* _execute_delete
execute_delete(rows, k) == [rows EXCEPT ![k] = NoRow]

\* the number of rows WHERE key = k matches
Matching(rows, k) == IF rows[k] # NoRow THEN 1 ELSE 0

NoData == [matched |-> 0 - 1, rows_affected |-> 0 - 1]

\* the result of a single statement: {'rows_affected': cursor.rowcount}
OpResult(type, rows, k) ==
  CASE type \in {"UPDATE", "DELETE"} ->
         [matched |-> Matching(rows, k), rows_affected |-> Matching(rows, k)]
    [] type = "INSERT" -> [matched |-> 0 - 1, rows_affected |-> 1]
    [] OTHER -> NoData

\* an UPDATE or DELETE that matches no row is treated as a failure
OpRaisesOnNoMatch(type, rows, k) ==
  CASE type = "INSERT" -> execute_insert_raises(rows, k)
    [] type \in {"UPDATE", "DELETE"} -> Matching(rows, k) = 0
    [] type = "SELECT" -> FALSE
    [] OTHER -> TRUE

\* a type that is none of the four is passed over without an error
OpRaisesInsertOnly(type, rows, k) ==
  CASE type = "INSERT" -> execute_insert_raises(rows, k)
    [] OTHER -> FALSE

\* does statement (type, k) raise on rows
OpRaises(type, rows, k) ==
  CASE type = "INSERT" -> execute_insert_raises(rows, k)
    [] type \in {"UPDATE", "DELETE", "SELECT"} -> FALSE
    [] OTHER -> TRUE

\* rows after statement (type, k) has succeeded
OpApply(type, rows, k) ==
  CASE type = "INSERT" -> execute_insert(rows, k)
    [] type = "UPDATE" -> execute_update(rows, k)
    [] type = "DELETE" -> execute_delete(rows, k)
    [] OTHER -> rows

\* sqlite3 (legacy isolation level) opens a transaction before INSERT/UPDATE/DELETE
IsDml(type) == type \in {"INSERT", "UPDATE", "DELETE"}

\* Connection.rollback() / __exit__ on an exception
ConnRollback(c, d) == [work |-> d, in_tx |-> FALSE]

\* ROLLBACK replaced by COMMIT: the changes made so far become durable
TxOnErrorCommit(c, d) == [conn |-> [work |-> c.work, in_tx |-> FALSE], db |-> c.work]

\* _execute_transaction, except branch: ROLLBACK, then the error is re-raised
TxOnError(c, d) == [conn |-> ConnRollback(c, d), db |-> d]

\* a plain INSERT: the row is added next to the rows of the same request id
LogInsert(log, r, status) == [log EXCEPT ![r] = Append(@, status)]

\* INSERT OR REPLACE INTO sync_log with request_id UNIQUE: the rows of the same
\* request id are deleted, then the row is inserted
LogInsertOrReplace(log, r, status) == [log EXCEPT ![r] = <<status>>]

\* the lock is not taken: every caller enters at once
LockFreeAlways(l) == TRUE

\* with self._lock: the caller enters when no other thread holds the lock
LockFree(l) == l = NoWorker

InitDbVars ==
  /\ db = EmptyDb
  /\ lock = NoWorker
  /\ conn = [t \in Workers |-> ClosedConn]
  /\ epc = [t \in Workers |-> "idle"]
  /\ ereq = [t \in Workers |-> NoReq]
  /\ eidx = [t \in Workers |-> 0]
  /\ epre = [t \in Workers |-> EmptyRows]
  /\ efail = [t \in Workers |-> 0]
  /\ etouched = [t \in Workers |-> FALSE]
  /\ edata = [t \in Workers |-> NoData]
  /\ eres = [t \in Workers |-> "none"]

\* execute_request: acquire the lock and open a connection
execute_request_enter(t) ==
  /\ epc[t] = "idle"
  /\ LockFree(lock)
  /\ \E id \in ReqIds, o \in Operations :
       ereq' = [ereq EXCEPT ![t] = [request_id |-> id, operation |-> o]]
  /\ lock' = t
  /\ conn' = [conn EXCEPT ![t] = [work |-> db, in_tx |-> FALSE]]
  /\ epc' = [epc EXCEPT ![t] = "op"]
  /\ eidx' = [eidx EXCEPT ![t] = 0]
  /\ epre' = [epre EXCEPT ![t] = db.rows]
  /\ efail' = [efail EXCEPT ![t] = 0]
  /\ etouched' = [etouched EXCEPT ![t] = FALSE]
  /\ eres' = [eres EXCEPT ![t] = "none"]
  /\ edata' = [edata EXCEPT ![t] = NoData]
  /\ UNCHANGED db
  /\ UNCHANGED notDb

\* _execute_operation for a single statement
execute_operation(t) ==
  /\ epc[t] = "op"
  /\ ereq[t].operation # "TRANSACTION"
  /\ \E k \in Keys :
       LET o == ereq[t].operation
           c == conn[t]
       IN IF OpRaises(o, c.work.rows, k)
          THEN /\ conn' = [conn EXCEPT ![t] = ConnRollback(c, db)]
               /\ epc' = [epc EXCEPT ![t] = "errlog"]
               /\ UNCHANGED edata
          ELSE /\ conn' = [conn EXCEPT ![t] =
                            [work |-> [c.work EXCEPT !.rows = OpApply(o, c.work.rows, k)],
                             in_tx |-> c.in_tx \/ IsDml(o)]]
               /\ edata' = [edata EXCEPT ![t] = OpResult(o, c.work.rows, k)]
               /\ epc' = [epc EXCEPT ![t] = "log"]
  /\ UNCHANGED <<db, lock, ereq, eidx, epre, efail, etouched, eres>>
  /\ UNCHANGED notDb

\* _execute_transaction: validation of data.operations (a non-empty list),
\* then BEGIN TRANSACTION
execute_transaction_begin(t) ==
  /\ epc[t] = "op"
  /\ ereq[t].operation = "TRANSACTION"
  /\ \E valid \in BOOLEAN :
     IF ~valid
     THEN /\ conn' = [conn EXCEPT ![t] = ConnRollback(conn[t], db)]
          /\ epc' = [epc EXCEPT ![t] = "errlog"]
          /\ UNCHANGED eidx
     ELSE /\ conn' = [conn EXCEPT ![t].in_tx = TRUE]
          /\ epc' = [epc EXCEPT ![t] = "tx"]
          /\ eidx' = [eidx EXCEPT ![t] = 1]
  /\ UNCHANGED <<db, lock, ereq, epre, efail, etouched, edata, eres>>
  /\ UNCHANGED notDb

\* _execute_transaction: one iteration of the loop over the sub-operations
\* (the list holds at most MaxOps of them)
execute_transaction_step(t) ==
  /\ epc[t] = "tx"
  /\ eidx[t] <= MaxOps
  /\ \E type \in SubOpTypes, k \in Keys :
       LET c == conn[t]
       IN IF OpRaises(type, c.work.rows, k)
          THEN LET r == TxOnError(c, db)
               IN /\ conn' = [conn EXCEPT ![t] = r.conn]
                  /\ db' = r.db
                  /\ efail' = [efail EXCEPT ![t] = eidx[t]]
                  /\ etouched' = [etouched EXCEPT ![t] = (c.work.rows # db.rows)]
                  /\ epc' = [epc EXCEPT ![t] = "errlog"]
                  /\ UNCHANGED eidx
          ELSE /\ conn' = [conn EXCEPT ![t].work.rows = OpApply(type, c.work.rows, k)]
               /\ eidx' = [eidx EXCEPT ![t] = eidx[t] + 1]
               /\ UNCHANGED <<db, efail, etouched, epc>>
  /\ UNCHANGED <<lock, ereq, epre, edata, eres>>
  /\ UNCHANGED notDb

\* _execute_transaction: COMMIT after the last sub-operation
execute_transaction_commit(t) ==
  /\ epc[t] = "tx"
  /\ eidx[t] > 1
  /\ db' = conn[t].work
  /\ conn' = [conn EXCEPT ![t].in_tx = FALSE]
  /\ epc' = [epc EXCEPT ![t] = "log"]
  /\ UNCHANGED <<lock, ereq, eidx, epre, efail, etouched, edata, eres>>
  /\ UNCHANGED notDb

\* execute_request: log row, conn.commit(), return SUCCESS, release the lock
execute_request_success(t) ==
  /\ epc[t] = "log"
  /\ db' = [conn[t].work EXCEPT
               !.log = LogInsertOrReplace(@, ereq[t].request_id, "SUCCESS")]
  /\ eres' = [eres EXCEPT ![t] = "SUCCESS"]
  /\ lock' = NoWorker
  /\ conn' = [conn EXCEPT ![t] = ClosedConn]
  /\ epc' = [epc EXCEPT ![t] = "idle"]
  /\ ereq' = [ereq EXCEPT ![t] = NoReq]
  /\ eidx' = [eidx EXCEPT ![t] = 0]
  /\ epre' = [epre EXCEPT ![t] = EmptyRows]
  /\ UNCHANGED <<efail, etouched, edata>>
  /\ UNCHANGED notDb

\* execute_request, except branch: error log row on a new connection, return ERROR
execute_request_error(t) ==
  /\ epc[t] = "errlog"
  /\ db' = [db EXCEPT !.log = LogInsertOrReplace(@, ereq[t].request_id, "ERROR")]
  /\ eres' = [eres EXCEPT ![t] = "ERROR"]
  /\ lock' = NoWorker
  /\ conn' = [conn EXCEPT ![t] = ClosedConn]
  /\ epc' = [epc EXCEPT ![t] = "idle"]
  /\ ereq' = [ereq EXCEPT ![t] = NoReq]
  /\ eidx' = [eidx EXCEPT ![t] = 0]
  /\ epre' = [epre EXCEPT ![t] = EmptyRows]
  /\ edata' = [edata EXCEPT ![t] = NoData]
  /\ UNCHANGED <<efail, etouched>>
  /\ UNCHANGED notDb

\* execute_request: the INSERT OR REPLACE of the log row raises (the database
\* cannot be written, or a field of the request cannot be bound as a parameter);
\* the connection's context manager rolls back what is uncommitted and the except
\* branch is entered
execute_request_log_raises(t) ==
  /\ epc[t] = "log"
  /\ conn' = [conn EXCEPT ![t] = ConnRollback(conn[t], db)]
  /\ epc' = [epc EXCEPT ![t] = "errlog"]
  /\ eidx' = [eidx EXCEPT ![t] = 0]
  /\ edata' = [edata EXCEPT ![t] = NoData]
  /\ UNCHANGED <<db, lock, ereq, epre, efail, etouched, eres>>
  /\ UNCHANGED notDb

\* execute_request, except branch: the INSERT OR REPLACE of the error row raises;
\* nothing catches it, the lock is released and the exception reaches the caller
execute_request_raise(t) ==
  /\ epc[t] = "errlog"
  /\ eres' = [eres EXCEPT ![t] = "RAISED"]
  /\ lock' = NoWorker
  /\ conn' = [conn EXCEPT ![t] = ClosedConn]
  /\ epc' = [epc EXCEPT ![t] = "idle"]
  /\ ereq' = [ereq EXCEPT ![t] = NoReq]
  /\ eidx' = [eidx EXCEPT ![t] = 0]
  /\ epre' = [epre EXCEPT ![t] = EmptyRows]
  /\ efail' = [efail EXCEPT ![t] = 0]
  /\ etouched' = [etouched EXCEPT ![t] = FALSE]
  /\ UNCHANGED <<db, edata>>
  /\ UNCHANGED notDb

-----------------------------------------------------------------------------
(* FileMonitor: one watcher over one folder                                *)

MaxFiles == 2
MaxChunks == 2
MaxChecks == 3
MaxCalls == 2

Files == 1..MaxFiles
NoFile == 0
NoSize == 0 - 1

Exists(f) == fsize[f] # NoSize
\* the writer has written the whole JSON document
Complete(f) == fsize[f] = MaxChunks
\* json.load succeeds: no proper prefix of a JSON object is a JSON document
Parseable(f) == Complete(f)

\* the name is not recorded in the set: every later event dispatches the file again
MarkProcessedNot(pf, f) == pf

\* self.processed_files.add(filename)
MarkProcessed(pf, f) == pf \cup {f}

InitWatchVars ==
  /\ fsize = [f \in Files |-> NoSize]
  /\ wobserver = FALSE
  /\ wpc = "new"
  /\ processed_files = {}
  /\ wevents = {}
  /\ hfile = NoFile
  /\ hlast = NoSize
  /\ hchecks = 0
  /\ wqueue = {}
  /\ wcalls = [f \in Files |-> 0]
  /\ wpartial = [f \in Files |-> FALSE]

\* the observer reports an event for f once it has been started
Notify(f) == IF wpc = "observing" THEN wevents \cup {f} ELSE wevents

\* a writer opens a new file for writing: the file exists and is empty
writer_create(f) ==
  /\ fsize[f] = NoSize
  /\ fsize' = [fsize EXCEPT ![f] = 0]
  /\ wevents' = Notify(f)
  /\ UNCHANGED <<use_watchdog, wobserver, wpc, processed_files, hfile, hlast, hchecks, wqueue, wcalls, wpartial>>
  /\ UNCHANGED notWatch

\* a writer writes the next part of the file
writer_write(f) ==
  /\ Exists(f)
  /\ fsize[f] < MaxChunks
  /\ fsize' = [fsize EXCEPT ![f] = fsize[f] + 1]
  /\ wevents' = Notify(f)
  /\ UNCHANGED <<use_watchdog, wobserver, wpc, processed_files, hfile, hlast, hchecks, wqueue, wcalls, wpartial>>
  /\ UNCHANGED notWatch

\* a directory listing that dispatches the fully written files only
ScanFoundComplete == {f \in Files : Complete(f) /\ f \notin processed_files}

\* the files a directory listing dispatches: those not yet in the set
ScanFound == {f \in Files : Exists(f) /\ f \notin processed_files}

\* start_monitoring with _process_existing_files
start_monitoring ==
  /\ wpc = "new"
  /\ processed_files' = processed_files \cup ScanFound
  /\ wqueue' = wqueue \cup ScanFound
  /\ wpc' = "scanned"
  /\ UNCHANGED <<fsize, use_watchdog, wobserver, wevents, hfile, hlast, hchecks, wcalls, wpartial>>
  /\ UNCHANGED notWatch

\* _start_watchdog_monitoring: the observer starts, or fails and polling takes
\* over; Observer() raising leaves _observer unset, schedule() or start() raising
\* leaves an observer that was never started
start_watchdog_monitoring ==
  /\ wpc = "scanned"
  /\ use_watchdog
  /\ \/ wpc' = "observing" /\ wobserver' = TRUE /\ UNCHANGED use_watchdog
     \/ wpc' = "polling" /\ use_watchdog' = FALSE /\ wobserver' \in BOOLEAN
  /\ UNCHANGED <<fsize, processed_files, wevents, hfile, hlast, hchecks, wqueue, wcalls, wpartial>>
  /\ UNCHANGED notWatch

\* _start_polling_monitoring
start_polling_monitoring ==
  /\ wpc = "scanned"
  /\ ~use_watchdog
  /\ wpc' = "polling"
  /\ UNCHANGED <<fsize, use_watchdog, wobserver, processed_files, wevents, hfile, hlast, hchecks, wqueue,
                 wcalls, wpartial>>
  /\ UNCHANGED notWatch

\* _monitor_loop: one _check_new_files that finds something
check_new_files ==
  /\ wpc = "polling"
  /\ ScanFound # {}
  /\ processed_files' = processed_files \cup ScanFound
  /\ wqueue' = wqueue \cup ScanFound
  /\ UNCHANGED <<fsize, use_watchdog, wobserver, wpc, wevents, hfile, hlast, hchecks, wcalls, wpartial>>
  /\ UNCHANGED notWatch

\* on_created / on_modified -> _handle_file_event, up to the completion wait
handle_file_event(f) ==
  /\ wpc = "observing"
  /\ hfile = NoFile
  /\ f \in wevents
  /\ wevents' = wevents \ {f}
  /\ IF f \in processed_files
     THEN UNCHANGED <<processed_files, hfile, hlast, hchecks>>
     ELSE /\ processed_files' = MarkProcessed(processed_files, f)
          /\ hfile' = f
          /\ hlast' = NoSize
          /\ hchecks' = 0
  /\ UNCHANGED <<fsize, use_watchdog, wobserver, wpc, wqueue, wcalls, wpartial>>
  /\ UNCHANGED notWatch

\* _wait_for_file_complete: one iteration of the loop; on True the callback is submitted
wait_for_file_complete ==
  /\ hfile # NoFile
  /\ hchecks < MaxChecks
  /\ LET f == hfile
     IN IF Exists(f) /\ fsize[f] = hlast /\ fsize[f] > 0 /\ Parseable(f)
        THEN /\ wqueue' = wqueue \cup {f}
             /\ hfile' = NoFile
             /\ hlast' = NoSize
             /\ hchecks' = 0
        ELSE /\ hlast' = IF Exists(f) /\ ~(fsize[f] = hlast /\ fsize[f] > 0)
                         THEN fsize[f] ELSE hlast
             /\ hchecks' = hchecks + 1
             /\ UNCHANGED <<wqueue, hfile>>
  /\ UNCHANGED <<fsize, use_watchdog, wobserver, wpc, processed_files, wevents, wcalls, wpartial>>
  /\ UNCHANGED notWatch

\* _wait_for_file_complete: max_wait has elapsed, the file is not dispatched
wait_for_file_timeout ==
  /\ hfile # NoFile
  /\ hchecks = MaxChecks
  /\ hfile' = NoFile
  /\ hlast' = NoSize
  /\ hchecks' = 0
  /\ UNCHANGED <<fsize, use_watchdog, wobserver, wpc, processed_files, wevents, wqueue, wcalls, wpartial>>
  /\ UNCHANGED notWatch

\* the exception of a callback ends the monitor
CallbackExceptionKills(pc, raised) == IF raised THEN "stop_raised" ELSE pc

\* _safe_callback: try: callback(file_path) except Exception: logging.error;
\* the monitor is where it was, whether or not the callback raised
CallbackExceptionCaught(pc, raised) == pc

\* _safe_callback on a pool thread: the callback reads the file as it is now, and
\* raises (json.load) when the file is not fully written
safe_callback(f) ==
  /\ f \in wqueue
  /\ wcalls[f] < MaxCalls
  /\ wqueue' = wqueue \ {f}
  /\ wcalls' = [wcalls EXCEPT ![f] = wcalls[f] + 1]
  /\ wpartial' = [wpartial EXCEPT ![f] = wpartial[f] \/ ~Complete(f)]
  /\ wpc' = CallbackExceptionCaught(wpc, ~Complete(f))
  /\ UNCHANGED <<fsize, use_watchdog, wobserver, processed_files, wevents, hfile, hlast, hchecks>>
  /\ UNCHANGED notWatch

\* shutdown(wait=False): the call returns while callbacks are queued
ShutdownDoneAtOnce(queue) == TRUE

\* self._executor.shutdown(wait=True) returns when every submitted callback has run
ShutdownDone(queue) == queue = {}

\* stop_monitoring: _running = False and observer.stop(); events not yet handled
\* are dropped and the polling loop ends. Joining an observer that was never
\* started raises RuntimeError: stop_monitoring ends there, the executor is not
\* shut down
stop_monitoring ==
  /\ wpc \in {"observing", "polling"}
  /\ wevents' = {}
  /\ wpc' = IF wpc = "polling" /\ wobserver THEN "stop_raised" ELSE "stopping"
  /\ UNCHANGED <<fsize, use_watchdog, wobserver, processed_files, hfile, hlast, hchecks, wqueue,
                 wcalls, wpartial>>
  /\ UNCHANGED notWatch

\* stop_monitoring: observer.join() / thread.join() have returned (the observer
\* thread has left _handle_file_event), the executor is shut down, the call returns
stop_monitoring_return ==
  /\ wpc = "stopping"
  /\ hfile = NoFile
  /\ ShutdownDone(wqueue)
  /\ wpc' = "stopped"
  /\ wobserver' = FALSE
  /\ UNCHANGED <<fsize, use_watchdog, processed_files, wevents, hfile, hlast, hchecks, wqueue,
                 wcalls, wpartial>>
  /\ UNCHANGED notWatch

-----------------------------------------------------------------------------
(* SyncClient, the shared folders and SyncProcessor                        *)

RetryAttempts == 2

\* the caller threads of one SyncClient; every attempt of a call has a fresh
\* request id, here the pair <<call, attempt>>
Calls == {"k1", "k2"}
Rids == Calls \X (1..RetryAttempts)
\* a request file some other writer drops into the requests folder
AlienFile == <<"x", 1>>
ReqFiles == Rids \cup {AlienFile}
NoRid == <<"none", 0>>
NoResp == [from |-> NoRid, status |-> "none"]
NoFileResp == [st |-> "absent", name |-> "none", status |-> "none"]

\* json.load succeeds on the body of a file
JsonLoads(body) == body \in {"valid", "nonobject", "nokeys"}

\* what _handle_request gets from reading the request file
ReadBody(body) ==
  CASE body \in {"absent", "deleted"} -> "missing"
    [] body \in {"partial", "garbage"} -> "unparseable"
    [] OTHER -> body

\* the except branch writes no response
ErrorResponseNameNone(read) == "none"

\* client_id part of the name of the ERROR response the except branch writes:
\* "own" is the client_id of the request, "unknown" the literal 'unknown',
\* "none" means request_data.get raised and nothing is written
ErrorResponseName(read) ==
  CASE read = "valid" -> "own"
    [] read = "nonobject" -> "none"
    [] OTHER -> "unknown"

\* the request file is left in the folder
UnlinkNot(body) == body

\* file_path.unlink() on the request file (after file_path.exists() in the
\* except branch)
Unlink(body) == IF body \in {"absent", "deleted"} THEN body ELSE "deleted"

\* the request file is unlinked first, the response written afterwards
UnlinkBeforeResponse(body) == Unlink(body)

\* the request file while its response is opened and written: _handle_request
\* does not touch it before json.dump has returned
WhileResponseWritten(body) == body

\* the pending entry is looked up by another registered request id
ResponseKeyAny(f, ev) ==
  IF \E g \in Rids : g # f /\ ev[g] # "none"
  THEN CHOOSE g \in Rids : g # f /\ ev[g] # "none"
  ELSE f

\* request_id = response_data.get('request_id'): the id the processor copied
\* from the request body into the response for request file f
ResponseKey(f, ev) == f

\* the membership test is dropped: every response is taken as awaited
RegisteredAlways(ev, key) == TRUE

\* request_id in self._response_events
Registered(ev, key) == ev[key] # "none"

\* event.wait() without a timeout
WaitTimesOutNever(ev) == FALSE

\* event.wait(timeout=self.request_timeout) returns False: the event is not set
WaitTimesOut(ev) == ev = "clear"

\* the protocol is not in use
InitCfgOff ==
  /\ retry_attempts = 1
  /\ callers = {}
  /\ alien_on = FALSE
  /\ email_on = FALSE
  /\ stop_on = FALSE
  /\ p_watchdog = TRUE
  /\ c_watchdog = TRUE

InitProtoVars ==
  /\ reqf = [f \in ReqFiles |-> "absent"]
  /\ p_processed = {}
  /\ p_queue = {}
  /\ prun = "running"
  /\ hst = [f \in ReqFiles |-> "none"]
  /\ hcount = [f \in ReqFiles |-> 0]
  /\ hread = [f \in ReqFiles |-> "none"]
  /\ ndel = [f \in ReqFiles |-> 0]
  /\ iofail = [f \in ReqFiles |-> FALSE]
  /\ unlfail = [f \in ReqFiles |-> FALSE]
  /\ hnote = [f \in ReqFiles |-> "none"]
  /\ resp = [f \in ReqFiles |-> NoFileResp]
  /\ nresp = [f \in ReqFiles |-> 0]
  /\ cmon = "off"
  /\ c_processed = {}
  /\ c_events = {}
  /\ c_queue = {}
  /\ cb = [f \in Rids |-> "none"]
  /\ cbad = [f \in Rids |-> FALSE]
  /\ response_events = [f \in Rids |-> "none"]
  /\ pending_requests = [f \in Rids |-> NoResp]
  /\ cpc = [k \in Calls |-> "idle"]
  /\ catt = [k \in Calls |-> 1]
  /\ cres = [k \in Calls |-> [success |-> FALSE, error |-> "none", attempts |-> 0]]
  /\ cgot = [f \in Rids |-> NoRid]

\* the client's observer, once started, reports an event for response file f
NotifyC(f) == IF c_watchdog /\ cmon = "on" /\ f \in Rids THEN c_events \cup {f} ELSE c_events

\* the request id of the current attempt of call k
Cur(k) == <<k, catt[k]>>

\* _execute_with_retry with range(self.retry_attempts) empty: the loop body never
\* runs, the failure after the loop is returned with last_error None
execute_with_retry_empty(k) ==
  /\ k \in callers
  /\ cpc[k] = "idle"
  /\ catt[k] > retry_attempts
  /\ cres' = [cres EXCEPT ![k] =
                [success |-> FALSE, error |-> "none", attempts |-> retry_attempts]]
  /\ cpc' = [cpc EXCEPT ![k] = "done"]
  /\ UNCHANGED <<cfgVars, reqf, pwVars, phVars, resp, cwVars, ccbVars, catt, cgot>>
  /\ UNCHANGED notProto

\* the loop yields the next attempt; _send_request: register the event, open the
\* request file for writing
send_request(k) ==
  /\ k \in callers
  /\ cpc[k] = "idle"
  /\ catt[k] <= retry_attempts
  /\ response_events' = [response_events EXCEPT ![Cur(k)] = "clear"]
  /\ reqf' = [reqf EXCEPT ![Cur(k)] = "partial"]
  /\ cpc' = [cpc EXCEPT ![k] = "writing"]
  /\ UNCHANGED <<cfgVars, pwVars, phVars, resp, cwVars,
                 cb, cbad, pending_requests, catt, cres, cgot>>
  /\ UNCHANGED notProto

\* _send_request: json.dump has written the whole request, the file is closed
send_request_written(k) ==
  /\ cpc[k] = "writing"
  /\ reqf' = [reqf EXCEPT ![Cur(k)] = IF reqf[Cur(k)] = "partial" THEN "valid" ELSE @]
  /\ cpc' = [cpc EXCEPT ![k] = "sent"]
  /\ UNCHANGED <<cfgVars, pwVars, phVars, resp, cwVars,
                 ccbVars, catt, cres, cgot>>
  /\ UNCHANGED notProto

\* another writer puts a complete file into the requests folder: the request of
\* another client, JSON that is not an object, an object without the required
\* keys, or no JSON at all
alien_request ==
  /\ alien_on
  /\ reqf[AlienFile] = "absent"
  /\ \E body \in {"valid", "nonobject", "nokeys", "garbage"} :
       reqf' = [reqf EXCEPT ![AlienFile] = body]
  /\ UNCHANGED <<cfgVars, pwVars, phVars, resp, cwVars,
                 ccbVars, callVars>>
  /\ UNCHANGED notProto

\* the request files a directory listing of the processor's monitor dispatches
ScanFoundP == {f \in ReqFiles : reqf[f] \notin {"absent", "deleted"} /\ f \notin p_processed}

\* processor's FileMonitor, polling: one _check_new_files that finds something
p_check_new_files ==
  /\ ~p_watchdog
  /\ prun = "running"
  /\ ScanFoundP # {}
  /\ p_processed' = p_processed \cup ScanFoundP
  /\ p_queue' = p_queue \cup ScanFoundP
  /\ UNCHANGED <<cfgVars, reqf, prun, phVars, resp, cwVars, ccbVars, callVars>>
  /\ UNCHANGED notProto

\* processor's FileMonitor, watchdog: _handle_file_event for a created or modified
\* file not yet in the set; _wait_for_file_complete returns True when the file is
\* stable and json.load succeeds, and the callback is submitted; otherwise
\* max_wait elapses and the file is not dispatched
p_handle_file_event(f) ==
  /\ p_watchdog
  /\ prun = "running"
  /\ reqf[f] \notin {"absent", "deleted"}
  /\ f \notin p_processed
  /\ p_processed' = MarkProcessed(p_processed, f)
  /\ p_queue' = IF JsonLoads(reqf[f]) THEN p_queue \cup {f} ELSE p_queue
  /\ UNCHANGED <<cfgVars, reqf, prun, phVars, resp, cwVars, ccbVars, callVars>>
  /\ UNCHANGED notProto

\* the exception of the notification sink leaves the try body of _handle_request:
\* process_batch_import_request is called inside its own try/except,
\* should_send_email is not
SinkRaisesOut(note) == note = "predicate"

\* _handle_request up to the moment the response file is open for writing:
\* read and parse the request, execute it, consult the notification sink after a
\* SUCCESS, open the response file; when that raises, the except branch opens the
\* ERROR response; when nothing can be written the request file is unlinked at
\* once
handle_request(f) ==
  /\ f \in p_queue
  /\ hcount[f] < MaxCalls
  /\ p_queue' = p_queue \ {f}
  /\ hcount' = [hcount EXCEPT ![f] = hcount[f] + 1]
  /\ hread' = [hread EXCEPT ![f] = ReadBody(reqf[f])]
  /\ \E status \in {"SUCCESS", "ERROR"}, note \in {"none", "predicate", "send"},
        io1 \in BOOLEAN, io2 \in BOOLEAN :
       LET read == ReadBody(reqf[f])
           ename == ErrorResponseName(read)
       IN /\ note # "none" => (email_on /\ read = "valid" /\ status = "SUCCESS")
          /\ hnote' = [hnote EXCEPT ![f] = note]
          /\ IF read = "valid" /\ ~SinkRaisesOut(note) /\ io1
             THEN /\ resp' = [resp EXCEPT ![f] =
                                [st |-> "partial", name |-> "own", status |-> status]]
                  /\ nresp' = [nresp EXCEPT ![f] = nresp[f] + 1]
                  /\ hst' = [hst EXCEPT ![f] = "writing"]
                  /\ c_events' = NotifyC(f)
                  /\ reqf' = [reqf EXCEPT ![f] = WhileResponseWritten(@)]
                  /\ ndel' = [ndel EXCEPT ![f] =
                                IF WhileResponseWritten(reqf[f]) = reqf[f] THEN @ ELSE @ + 1]
                  /\ UNCHANGED iofail
             ELSE IF ename # "none" /\ io2
             THEN /\ resp' = [resp EXCEPT ![f] =
                                [st |-> "partial", name |-> ename, status |-> "ERROR"]]
                  /\ nresp' = [nresp EXCEPT ![f] = nresp[f] + 1]
                  /\ hst' = [hst EXCEPT ![f] = "errwriting"]
                  /\ c_events' = IF ename = "own" THEN NotifyC(f) ELSE c_events
                  /\ iofail' = [iofail EXCEPT ![f] =
                                  iofail[f] \/ (read = "valid" /\ ~SinkRaisesOut(note))]
                  /\ reqf' = [reqf EXCEPT ![f] = WhileResponseWritten(@)]
                  /\ ndel' = [ndel EXCEPT ![f] =
                                IF WhileResponseWritten(reqf[f]) = reqf[f] THEN @ ELSE @ + 1]
             ELSE /\ hst' = [hst EXCEPT ![f] = "done"]
                  /\ iofail' = [iofail EXCEPT ![f] = iofail[f] \/ (ename # "none")]
                  /\ reqf' = [reqf EXCEPT ![f] = Unlink(@)]
                  /\ ndel' = [ndel EXCEPT ![f] = IF Unlink(reqf[f]) = reqf[f] THEN @ ELSE @ + 1]
                  /\ UNCHANGED <<resp, nresp, c_events>>
  /\ UNCHANGED <<cfgVars, p_processed, prun, unlfail, cmon, c_processed, c_queue, ccbVars,
                 callVars>>
  /\ UNCHANGED notProto

\* _handle_request: json.dump has written the whole response, then the request
\* file is unlinked. The unlink can raise for the file of the other client (that
\* client holds it open, or the share refuses the deletion): after the response
\* of the main path the except branch is entered, in the except branch the
\* handler ends with the file left in place
handle_request_written(f) ==
  /\ hst[f] \in {"writing", "errwriting"}
  /\ resp' = [resp EXCEPT ![f].st = "complete"]
  /\ c_events' = IF resp[f].name = "own" THEN NotifyC(f) ELSE c_events
  /\ \E raises \in BOOLEAN :
       /\ raises => (f = AlienFile /\ reqf[f] = "valid")
       /\ IF raises
          THEN /\ hst' = [hst EXCEPT ![f] = IF hst[f] = "writing" THEN "except" ELSE "done"]
               /\ unlfail' = [unlfail EXCEPT ![f] = TRUE]
               /\ UNCHANGED <<reqf, ndel>>
          ELSE /\ reqf' = [reqf EXCEPT ![f] = Unlink(@)]
               /\ ndel' = [ndel EXCEPT ![f] = IF Unlink(reqf[f]) = reqf[f] THEN @ ELSE @ + 1]
               /\ hst' = [hst EXCEPT ![f] = "done"]
               /\ UNCHANGED unlfail
  /\ UNCHANGED <<cfgVars, pwVars, hcount, hread, nresp, iofail, hnote, cmon, c_processed,
                 c_queue, ccbVars, callVars>>
  /\ UNCHANGED notProto

\* _handle_request, except branch entered from the unlink of the main path:
\* request_data is set, so the ERROR response is opened under the name of the
\* response just written; when that raises the handler ends
handle_request_except(f) ==
  /\ hst[f] = "except"
  /\ \E io \in BOOLEAN :
       IF io
       THEN /\ resp' = [resp EXCEPT ![f] = [st |-> "partial", name |-> "own", status |-> "ERROR"]]
            /\ nresp' = [nresp EXCEPT ![f] = nresp[f] + 1]
            /\ hst' = [hst EXCEPT ![f] = "errwriting"]
            /\ c_events' = NotifyC(f)
            /\ UNCHANGED iofail
       ELSE /\ hst' = [hst EXCEPT ![f] = "done"]
            /\ iofail' = [iofail EXCEPT ![f] = TRUE]
            /\ UNCHANGED <<resp, nresp, c_events>>
  /\ UNCHANGED <<cfgVars, reqf, pwVars, hcount, hread, ndel, unlfail, hnote, cmon, c_processed,
                 c_queue, ccbVars, callVars>>
  /\ UNCHANGED notProto

\* shutdown(wait=False): stop() returns while requests are queued or being handled
ExecutorShutdownDoneAtOnce(queue, st) == TRUE

\* self.executor.shutdown(wait=True) returns when every submitted _handle_request
\* has run to its end
ExecutorShutdownDone(queue, st) ==
  queue = {} /\ \A f \in ReqFiles : st[f] \notin {"writing", "except", "errwriting"}

\* SyncProcessor.stop: request_monitor.stop_monitoring() has halted the monitor of
\* the requests folder
processor_stop ==
  /\ stop_on
  /\ prun = "running"
  /\ prun' = "stopping"
  /\ UNCHANGED <<cfgVars, reqf, p_processed, p_queue, phVars, resp, cwVars, ccbVars, callVars>>
  /\ UNCHANGED notProto

\* SyncProcessor.stop: self.executor.shutdown(wait=True) has returned
processor_stop_return ==
  /\ prun = "stopping"
  /\ ExecutorShutdownDone(p_queue, hst)
  /\ prun' = "stopped"
  /\ UNCHANGED <<cfgVars, reqf, p_processed, p_queue, phVars, resp, cwVars, ccbVars, callVars>>
  /\ UNCHANGED notProto

\* the response files a directory listing of the client's monitor dispatches
\* (files named unknown_*.json are dispatched too; the callback returns at once
\* for them, so they are left out)
ScanFoundC ==
  {f \in Rids : resp[f].name = "own" /\ resp[f].st \in {"partial", "complete"}
                /\ f \notin c_processed}

\* _wait_for_response: _start_response_monitor; the first caller runs
\* start_monitoring with _process_existing_files
wait_for_response(k) ==
  /\ cpc[k] = "sent"
  /\ IF cmon = "off"
     THEN /\ c_processed' = c_processed \cup ScanFoundC
          /\ c_queue' = c_queue \cup ScanFoundC
          /\ cmon' = "scanned"
          /\ cpc' = [cpc EXCEPT ![k] = "starting"]
     ELSE /\ cpc' = [cpc EXCEPT ![k] = "wait"]
          /\ UNCHANGED <<c_processed, c_queue, cmon>>
  /\ UNCHANGED <<cfgVars, reqf, pwVars, phVars, resp, c_events, ccbVars, catt, cres, cgot>>
  /\ UNCHANGED notProto

\* start_monitoring: the observer or the polling thread is started
start_response_monitor(k) ==
  /\ cpc[k] = "starting"
  /\ cmon' = "on"
  /\ cpc' = [cpc EXCEPT ![k] = "wait"]
  /\ UNCHANGED <<cfgVars, reqf, pwVars, phVars, resp, c_processed, c_events, c_queue, ccbVars,
                 catt, cres, cgot>>
  /\ UNCHANGED notProto

\* client's FileMonitor, polling: one _check_new_files that finds something
c_check_new_files ==
  /\ ~c_watchdog
  /\ cmon = "on"
  /\ ScanFoundC # {}
  /\ c_processed' = c_processed \cup ScanFoundC
  /\ c_queue' = c_queue \cup ScanFoundC
  /\ UNCHANGED <<cfgVars, reqf, pwVars, phVars, resp, cmon, c_events, ccbVars, callVars>>
  /\ UNCHANGED notProto

\* client's FileMonitor, watchdog: _handle_file_event for an event; a file not
\* yet in the set is added, and dispatched if _wait_for_file_complete returns True
c_handle_file_event(f) ==
  /\ c_watchdog
  /\ cmon = "on"
  /\ f \in c_events
  /\ c_events' = c_events \ {f}
  /\ IF f \in c_processed
     THEN UNCHANGED <<c_processed, c_queue>>
     ELSE /\ c_processed' = MarkProcessed(c_processed, f)
          /\ c_queue' = IF resp[f].st = "complete" THEN c_queue \cup {f} ELSE c_queue
  /\ UNCHANGED <<cfgVars, reqf, pwVars, phVars, resp, cmon, ccbVars, callVars>>
  /\ UNCHANGED notProto

\* _handle_response_file: read the file; json.load raising ends the callback with
\* the file left in place; an id without a pending entry: the file is unlinked
handle_response_file(f) ==
  /\ f \in c_queue
  /\ c_queue' = c_queue \ {f}
  /\ IF resp[f].st # "complete"
     THEN /\ cbad' = [cbad EXCEPT ![f] = TRUE]
          /\ UNCHANGED <<cb, resp>>
     ELSE IF Registered(response_events, ResponseKey(f, response_events))
     THEN /\ cb' = [cb EXCEPT ![f] = "found"]
          /\ UNCHANGED <<cbad, resp>>
     ELSE /\ resp' = [resp EXCEPT ![f].st = "deleted"]
          /\ cb' = [cb EXCEPT ![f] = "unmatched"]
          /\ UNCHANGED cbad
  /\ UNCHANGED <<cfgVars, reqf, pwVars, phVars, cmon, c_processed, c_events, response_events,
                 pending_requests, callVars>>
  /\ UNCHANGED notProto

\* the client leaves the response file it has read in the folder
UnlinkResponseNot(st) == st

\* file_path.unlink() at the end of _handle_response_file
UnlinkResponse(st) == "deleted"

\* _handle_response_file, under the lock: store the response, set the event,
\* unlink the file; the entry having been popped meanwhile raises KeyError and
\* the file stays
handle_response_file_set(f) ==
  /\ cb[f] = "found"
  /\ LET key == ResponseKey(f, response_events)
     IN /\ pending_requests' = [pending_requests EXCEPT ![key] =
                                  [from |-> f, status |-> resp[f].status]]
        /\ IF response_events[key] # "none"
           THEN /\ response_events' = [response_events EXCEPT ![key] = "set"]
                /\ resp' = [resp EXCEPT ![f].st = UnlinkResponse(@)]
                /\ cb' = [cb EXCEPT ![f] = "set"]
           ELSE /\ cb' = [cb EXCEPT ![f] = "keyerror"]
                /\ UNCHANGED <<response_events, resp>>
  /\ UNCHANGED <<cfgVars, reqf, pwVars, phVars, cwVars, cbad, callVars>>
  /\ UNCHANGED notProto

\* the loop ends after the first attempt
HasNextAttemptNever(attempt, n) == FALSE

\* for attempt in range(self.retry_attempts): attempt number `attempt` (counted
\* from 1) is followed by another one
HasNextAttempt(attempt, n) == attempt < n

\* _execute_with_retry after a failed attempt: sleep retry_delay before the next
\* attempt, or after the last one return the failure whose message carries
\* self.retry_attempts and last_error
AfterFailure(k, err) ==
  IF HasNextAttempt(catt[k], retry_attempts)
  THEN /\ cres' = [cres EXCEPT ![k] = [success |-> FALSE, error |-> err, attempts |-> 0]]
       /\ cpc' = [cpc EXCEPT ![k] = "delay"]
       /\ UNCHANGED catt
  ELSE /\ cres' = [cres EXCEPT ![k] =
                     [success |-> FALSE, error |-> err, attempts |-> retry_attempts]]
       /\ cpc' = [cpc EXCEPT ![k] = "done"]
       /\ UNCHANGED catt

\* _execute_with_retry: time.sleep(self.retry_delay) is over, the next iteration
\* of the loop begins
retry_delay(k) ==
  /\ cpc[k] = "delay"
  /\ catt' = [catt EXCEPT ![k] = catt[k] + 1]
  /\ cpc' = [cpc EXCEPT ![k] = "idle"]
  /\ UNCHANGED <<cfgVars, reqf, pwVars, phVars, resp, cwVars, ccbVars, cres, cgot>>
  /\ UNCHANGED notProto

\* _wait_for_response: the event is set; pop the entry and build the result
wait_for_response_set(k) ==
  /\ cpc[k] = "wait"
  /\ response_events[Cur(k)] = "set"
  /\ response_events' = [response_events EXCEPT ![Cur(k)] = "none"]
  /\ pending_requests' = [pending_requests EXCEPT ![Cur(k)] = NoResp]
  /\ LET data == pending_requests[Cur(k)]
     IN /\ cgot' = [cgot EXCEPT ![Cur(k)] = data.from]
        /\ IF data.status = "SUCCESS"
           THEN /\ cres' = [cres EXCEPT ![k] =
                              [success |-> TRUE, error |-> "none", attempts |-> 0]]
                /\ cpc' = [cpc EXCEPT ![k] = "done"]
                /\ UNCHANGED catt
           ELSE AfterFailure(k, IF data = NoResp THEN "lost" ELSE "error")
  /\ UNCHANGED <<cfgVars, reqf, pwVars, phVars, resp, cwVars, cb, cbad>>
  /\ UNCHANGED notProto

\* _wait_for_response: request_timeout has elapsed; pop the event
wait_for_response_timeout(k) ==
  /\ cpc[k] = "wait"
  /\ WaitTimesOut(response_events[Cur(k)])
  /\ response_events' = [response_events EXCEPT ![Cur(k)] = "none"]
  /\ AfterFailure(k, "timeout")
  /\ UNCHANGED <<cfgVars, reqf, pwVars, phVars, resp, cwVars, cb, cbad, pending_requests, cgot>>
  /\ UNCHANGED notProto

-----------------------------------------------------------------------------
(* The query methods of SyncClient and the statements built for them       *)

\* the where argument of a call: None, the empty map {}, or {'key': k}
WhereNone == 0 - 1
WhereEmpty == 0
Wheres == {WhereNone, WhereEmpty} \cup Keys

Methods == {"select", "find_one", "exists", "update", "delete"}

\* a data value: None, a list of rows, one row, True, False, or
\* {'rows_affected': n} with items the rows the statement changed
Data(kind, items) == [kind |-> kind, items |-> items]

\* QueryResult(success=False, error=...), with the status of the response
NoResult == [status |-> "none", success |-> FALSE, data |-> Data("None", <<>>)]
NoCall == [method |-> "none", where |-> WhereNone, sent |-> WhereNone]

\* the truth value Python gives a data value
Truthy(d) ==
  CASE d.kind = "list" -> d.items # <<>>
    [] d.kind \in {"None", "False"} -> FALSE
    [] OTHER -> TRUE

\* the 'where' entry of the request: select() adds it `if where:`, update() and
\* delete() always
WhereSent(method, w) ==
  IF method \in {"update", "delete"} THEN w
  ELSE IF w \in Keys THEN w ELSE WhereNone

\* the operation of the request a method sends
OperationOf(method) ==
  CASE method = "update" -> "UPDATE"
    [] method = "delete" -> "DELETE"
    [] OTHER -> "SELECT"

\* an empty where map is accepted; only a where of None is refused
StatementRaisesOnNone(op, w) == op \in {"UPDATE", "DELETE"} /\ w = WhereNone

\* the statement cannot be built or run: the conditions of the where map are
\* joined after "WHERE", and with no condition the text ends there, which sqlite3
\* refuses as incomplete input; a where of None has no keys() (UPDATE, DELETE)
StatementRaises(op, w) ==
  IF op = "SELECT" THEN w = WhereEmpty ELSE w \notin Keys

\* the rows a statement applies to: those satisfying every condition of its WHERE
WhereMatches(rows, w) == {k \in Keys : rows[k] # NoRow /\ (w \in Keys => w = k)}

\* cursor.fetchall(): the matching rows in rowid order, at most `limit` of them
Fetch(rows, w, limit) ==
  LET all == SelectSeq([i \in 1..MaxKey |-> i], LAMBDA k : k \in WhereMatches(rows, w))
  IN SubSeq(all, 1, IF Len(all) < limit THEN Len(all) ELSE limit)

\* SyncClient.find_one on the result of select(..., limit=1)
find_one(result) ==
  IF result.success /\ Truthy(result.data)
  THEN [result EXCEPT !.data = Data("row", <<Head(result.data.items)>>)]
  ELSE result

\* SyncClient.exists on the result of find_one
exists(result) ==
  IF result.success
  THEN [result EXCEPT !.data = Data(IF result.data.kind # "None" THEN "True" ELSE "False", <<>>)]
  ELSE result

InitQueryVars ==
  /\ qpc = "idle"
  /\ qreq = NoCall
  /\ qres = NoResult

\* a method of SyncClient is called: the request is built and sent
client_call ==
  /\ qpc = "idle"
  /\ \E m \in Methods, w \in Wheres :
       qreq' = [method |-> m, where |-> w, sent |-> WhereSent(m, w)]
  /\ qres' = NoResult
  /\ qpc' = "sent"
  /\ UNCHANGED qtable
  /\ UNCHANGED notQuery

\* _execute_with_retry returns: the request was executed and its response came
\* back, or no attempt was answered; _execute_select, _execute_update and
\* _execute_delete build and run the statement
execute_statement ==
  /\ qpc = "sent"
  /\ \E answered \in BOOLEAN :
       LET op == OperationOf(qreq.method)
           w == qreq.sent
           hit == WhereMatches(qtable, w)
           limit == IF qreq.method \in {"find_one", "exists"} THEN 1 ELSE MaxKey
       IN IF ~answered
          THEN qres' = NoResult /\ UNCHANGED qtable
          ELSE IF StatementRaises(op, w)
          THEN qres' = [NoResult EXCEPT !.status = "ERROR"] /\ UNCHANGED qtable
          ELSE IF op = "SELECT"
          THEN /\ qres' = [status |-> "SUCCESS", success |-> TRUE,
                           data |-> Data("list", Fetch(qtable, w, limit))]
               /\ UNCHANGED qtable
          ELSE /\ qres' = [status |-> "SUCCESS", success |-> TRUE,
                           data |-> Data("affected", Fetch(qtable, w, MaxKey))]
               /\ qtable' = [k \in Keys |->
                               IF k \notin hit THEN qtable[k]
                               ELSE IF op = "UPDATE" THEN Updated ELSE NoRow]
  /\ qpc' = "answered"
  /\ UNCHANGED qreq
  /\ UNCHANGED notQuery

\* the method returns: find_one and exists rewrite the data of the result
client_return ==
  /\ qpc = "answered"
  /\ qres' = CASE qreq.method = "find_one" -> find_one(qres)
               [] qreq.method = "exists" -> exists(find_one(qres))
               [] OTHER -> qres
  /\ qpc' = "idle"
  /\ UNCHANGED <<qtable, qreq>>
  /\ UNCHANGED notQuery

-----------------------------------------------------------------------------
(* Two clients on one responses folder                                     *)

\* client ids, as the characters of the string: a client_id is any string the
\* caller passes to SyncClient; request ids are uuid4 strings, without '_'
ClientIds == {<<"A">>, <<"B">>, <<"A", "_", "B">>}
ShareRids == {"r1", "r2"}
NoClient == <<>>

\* the name of the response file the processor writes (without ".json"):
\* f"{request.client_id}_{request.request_id}"
ResponseFileName(c, r) == c \o <<"_", r>>

\* file_path.name.startswith(f"{self.client_id}_")
NameStartsWith(name, me) ==
  LET prefix == me \o <<"_">>
  IN Len(prefix) <= Len(name) /\ SubSeq(name, 1, Len(prefix)) = prefix

InitShareVars ==
  /\ sresp = [f \in ClientIds \X ShareRids |-> "absent"]
  /\ sseen = [c \in ClientIds |-> {}]
  /\ staken = [f \in ClientIds \X ShareRids |-> NoClient]

\* the processor has written the response to request r of client c
write_response(c, r) ==
  /\ c \in sclients
  /\ sresp[<<c, r>>] = "absent"
  /\ sresp' = [sresp EXCEPT ![<<c, r>>] = "present"]
  /\ UNCHANGED <<sclients, sseen, staken>>
  /\ UNCHANGED notShare

\* _handle_response_file of client `me` for the response file of request r of
\* client c, dispatched by the monitor of `me`: a file whose name does not start
\* with the id of `me` and '_' is left alone; any other is read and unlinked,
\* whether or not its request_id is in _response_events
shared_handle_response_file(me, c, r) ==
  /\ me \in sclients
  /\ sresp[<<c, r>>] = "present"
  /\ <<c, r>> \notin sseen[me]
  /\ sseen' = [sseen EXCEPT ![me] = @ \cup {<<c, r>>}]
  /\ IF NameStartsWith(ResponseFileName(c, r), me)
     THEN /\ sresp' = [sresp EXCEPT ![<<c, r>>] = "deleted"]
          /\ staken' = [staken EXCEPT ![<<c, r>>] = me]
     ELSE UNCHANGED <<sresp, staken>>
  /\ UNCHANGED sclients
  /\ UNCHANGED notShare

-----------------------------------------------------------------------------
(* One TRANSACTION over a given list of sub-operations                     *)

\* the non-empty lists of sub-operations: each has a type and the key its data
\* names
OpLists == UNION {[1..n -> [type : SubOpTypes, key : Keys]] : n \in 1..MaxOps}

\* no transaction is running
InitTxVars ==
  /\ txops = <<>>
  /\ txi = 0
  /\ txconn = ClosedConn
  /\ txdb = EmptyDb
  /\ txresults = <<>>
  /\ txpc = "idle"

\* the loop takes the sub-operations from the last to the first
SubOperationReversed(ops, i) == ops[Len(ops) + 1 - i]

\* for i, operation in enumerate(operations): the sub-operation of iteration i
SubOperation(ops, i) == ops[i]

\* one iteration of the loop: the sub-operation is executed on the connection and
\* its sql_info appended to results; when it raises, the except branch issues
\* ROLLBACK and raises ValueError
transaction_step ==
  /\ txpc = "loop"
  /\ txi <= Len(txops)
  /\ LET op == SubOperation(txops, txi)
         c == txconn
     IN IF OpRaises(op.type, c.work.rows, op.key)
        THEN LET r == TxOnError(c, txdb)
             IN /\ txconn' = r.conn
                /\ txdb' = r.db
                /\ txpc' = "failed"
                /\ UNCHANGED <<txi, txresults>>
        ELSE /\ txconn' = [c EXCEPT !.work.rows = OpApply(op.type, c.work.rows, op.key)]
             /\ txresults' = Append(txresults,
                                    [operation_index |-> txi, type |-> op.type,
                                     key |-> op.key,
                                     result |-> OpResult(op.type, c.work.rows, op.key)])
             /\ txi' = txi + 1
             /\ UNCHANGED <<txdb, txpc>>
  /\ UNCHANGED txops
  /\ UNCHANGED notTx

\* after the loop: COMMIT, and the dict with results is returned
transaction_commit ==
  /\ txpc = "loop"
  /\ txi > Len(txops)
  /\ txdb' = txconn.work
  /\ txconn' = [txconn EXCEPT !.in_tx = FALSE]
  /\ txpc' = "committed"
  /\ UNCHANGED <<txops, txi, txresults>>
  /\ UNCHANGED notTx

-----------------------------------------------------------------------------
(* The thread pools of FileMonitor and SyncProcessor                       *)

\* the number of request files that arrive
MaxDetected == 6

\* processor.max_concurrent_requests of the configuration
max_concurrent_requests == 2

\* ThreadPoolExecutor(max_workers=5) of FileMonitor
WatcherPoolSize == 5

InitPoolVars ==
  /\ pl_detected = 0
  /\ pl_wqueue = <<>>
  /\ pl_wrunning = {}
  /\ pl_pqueue = <<>>
  /\ pl_prunning = {}
  /\ pl_handled = {}

\* a work item is taken from the queue whatever the number of running threads
WorkerFreeAlways(running, max_workers) == TRUE

\* ThreadPoolExecutor(max_workers=n): a work item is taken from the queue by an
\* idle thread, or by a new one while fewer than max_workers threads exist
WorkerFree(running, max_workers) == Cardinality(running) < max_workers

\* the monitor detects the next request file and submits its callback:
\* self._executor.submit(self._safe_callback, file_path, callback)
pool_submit_callback ==
  /\ pl_detected < MaxDetected
  /\ pl_detected' = pl_detected + 1
  /\ pl_wqueue' = Append(pl_wqueue, pl_detected + 1)
  /\ UNCHANGED <<pl_wrunning, pl_pqueue, pl_prunning, pl_handled>>
  /\ UNCHANGED notPool

\* a thread of FileMonitor._executor takes the oldest work item
pool_callback_start ==
  /\ pl_wqueue # <<>>
  /\ WorkerFree(pl_wrunning, WatcherPoolSize)
  /\ pl_wrunning' = pl_wrunning \cup {Head(pl_wqueue)}
  /\ pl_wqueue' = Tail(pl_wqueue)
  /\ UNCHANGED <<pl_detected, pl_pqueue, pl_prunning, pl_handled>>
  /\ UNCHANGED notPool

\* the callback: _process_request_file submits _handle_request and returns
process_request_file(f) ==
  /\ f \in pl_wrunning
  /\ pl_wrunning' = pl_wrunning \ {f}
  /\ pl_pqueue' = Append(pl_pqueue, f)
  /\ UNCHANGED <<pl_detected, pl_wqueue, pl_prunning, pl_handled>>
  /\ UNCHANGED notPool

\* a thread of SyncProcessor.executor takes the oldest work item
pool_handle_request_start ==
  /\ pl_pqueue # <<>>
  /\ WorkerFree(pl_prunning, max_concurrent_requests)
  /\ pl_prunning' = pl_prunning \cup {Head(pl_pqueue)}
  /\ pl_pqueue' = Tail(pl_pqueue)
  /\ UNCHANGED <<pl_detected, pl_wqueue, pl_wrunning, pl_handled>>
  /\ UNCHANGED notPool

\* _handle_request returns
pool_handle_request_return(f) ==
  /\ f \in pl_prunning
  /\ pl_prunning' = pl_prunning \ {f}
  /\ pl_handled' = pl_handled \cup {f}
  /\ UNCHANGED <<pl_detected, pl_wqueue, pl_wrunning, pl_pqueue>>
  /\ UNCHANGED notPool

-----------------------------------------------------------------------------
(* Specifications                                                          *)

\* the engine before its first request; the monitor of this module is not started
InitDb ==
  /\ InitDbVars
  /\ InitShareVars
  /\ InitTxVars
  /\ InitPoolVars
  /\ sclients = {}
  /\ InitQueryVars
  /\ qtable = EmptyRows
  /\ InitWatchVars
  /\ use_watchdog = TRUE
  /\ InitProtoVars
  /\ InitCfgOff

NextDb ==
  \/ \E t \in Workers : execute_request_enter(t)
  \/ \E t \in Workers : execute_operation(t)
  \/ \E t \in Workers : execute_transaction_begin(t)
  \/ \E t \in Workers : execute_transaction_step(t)
  \/ \E t \in Workers : execute_transaction_commit(t)
  \/ \E t \in Workers : execute_request_success(t)
  \/ \E t \in Workers : execute_request_error(t)
  \/ \E t \in Workers : execute_request_log_raises(t)
  \/ \E t \in Workers : execute_request_raise(t)

SpecDb == InitDb /\ [][NextDb]_vars

\* FileMonitor.__init__: WATCHDOG_AVAILABLE or not
InitWatch ==
  /\ InitWatchVars
  /\ InitShareVars
  /\ InitTxVars
  /\ InitPoolVars
  /\ sclients = {}
  /\ InitQueryVars
  /\ qtable = EmptyRows
  /\ use_watchdog \in BOOLEAN
  /\ InitDbVars
  /\ InitProtoVars
  /\ InitCfgOff

NextWatch ==
  \/ \E f \in Files : writer_create(f)
  \/ \E f \in Files : writer_write(f)
  \/ start_monitoring
  \/ start_watchdog_monitoring
  \/ start_polling_monitoring
  \/ check_new_files
  \/ \E f \in Files : handle_file_event(f)
  \/ wait_for_file_complete
  \/ wait_for_file_timeout
  \/ \E f \in Files : safe_callback(f)
  \/ stop_monitoring
  \/ stop_monitoring_return

SpecWatch == InitWatch /\ [][NextWatch]_vars

\* the processor is running (its monitor started on an empty requests folder);
\* each side uses watchdog or polling; the runs are: one call with retries, two
\* concurrent calls, one call next to a foreign request file with the
\* notification sink enabled and the processor stopped at some point, and one
\* call of a client configured with retry_attempts 0
InitProto ==
  /\ InitProtoVars
  /\ InitShareVars
  /\ InitTxVars
  /\ InitPoolVars
  /\ sclients = {}
  /\ InitQueryVars
  /\ qtable = EmptyRows
  /\ p_watchdog \in BOOLEAN
  /\ c_watchdog \in BOOLEAN
  /\ \/ callers = {"k1"} /\ retry_attempts = RetryAttempts /\ alien_on = FALSE
     \/ callers = Calls /\ retry_attempts = 1 /\ alien_on = FALSE
     \/ callers = {"k1"} /\ retry_attempts = 1 /\ alien_on = TRUE
     \/ callers = {"k1"} /\ retry_attempts = 0 /\ alien_on = FALSE
  /\ email_on = alien_on
  /\ stop_on = alien_on
  /\ InitDbVars
  /\ InitWatchVars
  /\ use_watchdog = TRUE

NextProto ==
  \/ \E k \in Calls : execute_with_retry_empty(k)
  \/ \E k \in Calls : send_request(k)
  \/ \E k \in Calls : send_request_written(k)
  \/ alien_request
  \/ p_check_new_files
  \/ \E f \in ReqFiles : p_handle_file_event(f)
  \/ \E f \in ReqFiles : handle_request(f)
  \/ \E f \in ReqFiles : handle_request_written(f)
  \/ \E f \in ReqFiles : handle_request_except(f)
  \/ processor_stop
  \/ processor_stop_return
  \/ \E k \in Calls : wait_for_response(k)
  \/ \E k \in Calls : start_response_monitor(k)
  \/ c_check_new_files
  \/ \E f \in Rids : c_handle_file_event(f)
  \/ \E f \in Rids : handle_response_file(f)
  \/ \E f \in Rids : handle_response_file_set(f)
  \/ \E k \in Calls : wait_for_response_set(k)
  \/ \E k \in Calls : wait_for_response_timeout(k)
  \/ \E k \in Calls : retry_delay(k)

SpecProto == InitProto /\ [][NextProto]_vars

\* a caller thread keeps running: it finishes writing its request, starts the
\* monitor, and leaves event.wait when the event is set or the timeout elapses
CallerStep(k) ==
  \/ execute_with_retry_empty(k)
  \/ send_request(k)
  \/ send_request_written(k)
  \/ wait_for_response(k)
  \/ start_response_monitor(k)
  \/ wait_for_response_set(k)
  \/ wait_for_response_timeout(k)
  \/ retry_delay(k)

FairProto == SpecProto /\ \A k \in Calls : WF_vars(CallerStep(k))

\* the pool threads of SyncProcessor.executor keep running: a submitted
\* _handle_request is run, and a response being written is finished
FairProcessor ==
  SpecProto /\ \A f \in ReqFiles :
                WF_vars(handle_request(f) \/ handle_request_written(f) \/ handle_request_except(f))

\* the table holds any rows when the first method is called
InitQuery ==
  /\ InitQueryVars
  /\ InitShareVars
  /\ InitTxVars
  /\ InitPoolVars
  /\ sclients = {}
  /\ qtable \in [Keys -> {NoRow, Inserted}]
  /\ InitDbVars
  /\ InitWatchVars
  /\ use_watchdog = TRUE
  /\ InitProtoVars
  /\ InitCfgOff

NextQuery ==
  \/ client_call
  \/ execute_statement
  \/ client_return

SpecQuery == InitQuery /\ [][NextQuery]_vars

\* two clients with distinct ids are started on the same responses folder
InitShare ==
  /\ InitShareVars
  /\ InitTxVars
  /\ InitPoolVars
  /\ sclients \in {pair \in SUBSET ClientIds : Cardinality(pair) = 2}
  /\ InitDbVars
  /\ InitWatchVars
  /\ use_watchdog = TRUE
  /\ InitProtoVars
  /\ InitCfgOff
  /\ InitQueryVars
  /\ qtable = EmptyRows

NextShare ==
  \/ \E c \in ClientIds, r \in ShareRids : write_response(c, r)
  \/ \E me \in ClientIds, c \in ClientIds, r \in ShareRids : shared_handle_response_file(me, c, r)

SpecShare == InitShare /\ [][NextShare]_vars

\* _execute_transaction has validated the list and issued BEGIN TRANSACTION on a
\* connection to the database as it is after construction
InitTx ==
  /\ txops \in OpLists
  /\ txi = 1
  /\ txconn = [work |-> EmptyDb, in_tx |-> TRUE]
  /\ txdb = EmptyDb
  /\ txresults = <<>>
  /\ txpc = "loop"
  /\ InitDbVars
  /\ InitWatchVars
  /\ use_watchdog = TRUE
  /\ InitProtoVars
  /\ InitCfgOff
  /\ InitQueryVars
  /\ qtable = EmptyRows
  /\ InitShareVars
  /\ sclients = {}
  /\ InitPoolVars

NextTx ==
  \/ transaction_step
  \/ transaction_commit

SpecTx == InitTx /\ [][NextTx]_vars

\* no request file has arrived; the threads of the pools are scheduled: while one
\* of them can take a step, a step of the pools is taken
InitPool ==
  /\ InitPoolVars
  /\ InitDbVars
  /\ InitWatchVars
  /\ use_watchdog = TRUE
  /\ InitProtoVars
  /\ InitCfgOff
  /\ InitQueryVars
  /\ qtable = EmptyRows
  /\ InitShareVars
  /\ InitTxVars
  /\ sclients = {}

NextPool ==
  \/ pool_submit_callback
  \/ pool_callback_start
  \/ \E f \in 1..MaxDetected : process_request_file(f)
  \/ pool_handle_request_start
  \/ \E f \in 1..MaxDetected : pool_handle_request_return(f)

SpecPool ==
  /\ InitPool
  /\ [][NextPool]_vars
  /\ WF_vars(\/ pool_callback_start
             \/ \E f \in 1..MaxDetected : process_request_file(f)
             \/ pool_handle_request_start
             \/ \E f \in 1..MaxDetected : pool_handle_request_return(f))

-----------------------------------------------------------------------------
(* Properties                                                              *)

\* C3: when execute_request ends for a TRANSACTION one of whose sub-operations
\* raised, the rows of the database are those it had when the request was entered
\* (no sub-operation of the transaction left an effect), and the status it returns
\* is ERROR.
C3_TransactionAtomic ==
  [][\A t \in Workers :
       (epc[t] = "errlog" /\ epc'[t] = "idle" /\ ereq[t].operation = "TRANSACTION"
          /\ efail[t] > 0)
       => (db'.rows = epre[t] /\ (eres'[t] # "RAISED" => eres'[t] = "ERROR"))]_vars

\* a transaction of three sub-operations whose third raised after the first two
\* had changed rows has returned
C3_Witness ==
  \E t \in Workers :
    epc[t] = "idle" /\ eres[t] = "ERROR" /\ efail[t] = 3 /\ etouched[t]

\* C4: a FileMonitor invokes its callback at most once per file name, and a file
\* name whose callback is submitted or has run is in the ProcessedFileSet.
C4_AtMostOnce ==
  \A f \in Files :
    /\ wcalls[f] <= 1
    /\ (f \in wqueue \/ wcalls[f] > 0) => f \in processed_files

\* both paths have dispatched: one file by the observer after repeated events for
\* it, the other by a directory scan
C4_Witness ==
  /\ \A f \in Files : wcalls[f] = 1 /\ Complete(f)
  /\ use_watchdog /\ wpc = "observing" /\ wevents = {} /\ hfile = NoFile

\* nothing in the watcher is pending for the fully written file f: no event waits,
\* the observer thread is not handling it, no callback for it is queued, and in
\* polling mode a scan has seen it
Settled(f) ==
  /\ Complete(f)
  /\ wpc \in {"observing", "polling"}
  /\ f \notin wevents
  /\ hfile # f
  /\ f \notin wqueue
  /\ (wpc = "polling") => (f \in processed_files)

\* C5: every fully written file present in the folder while the watcher runs gets
\* its callback exactly once: when nothing is pending for it any more, the callback
\* has fired once.
C5_ExactlyOnce ==
  \A f \in Files : Settled(f) => wcalls[f] = 1

\* C6: the callback is never invoked for a file its writer has not finished.
C6_NoHalfWritten ==
  \A f \in Files : ~wpartial[f]

\* C1: every request file the processor has consumed, with no failure to open a
\* response file on the way, has exactly one response file written for it.
C1_ExactlyOneResponse ==
  \A f \in ReqFiles : (hst[f] = "done" /\ ~iofail[f]) => nresp[f] = 1

\* C2: an attempt returns only the response carrying its own request id, and the
\* result of a finished call is the status of that response.
C2_OwnResponse ==
  \A f \in Rids :
    /\ cgot[f] \in {NoRid, f}
    /\ (cgot[f] = f /\ cpc[f[1]] = "done" /\ catt[f[1]] = f[2])
         => (cres[f[1]].success <=> resp[f].status = "SUCCESS")

\* two concurrent calls have each returned their own response, one SUCCESS and
\* one ERROR
C2_Witness ==
  /\ cpc["k1"] = "done" /\ cgot[<<"k1", 1>>] = <<"k1", 1>> /\ cres["k1"].success
  /\ cpc["k2"] = "done" /\ cgot[<<"k2", 1>>] = <<"k2", 1>> /\ ~cres["k2"].success

\* C7: the client never reads a response file before the processor has finished
\* writing it.
C7_NoPartialRead ==
  \A f \in Rids : ~cbad[f]

\* C8: when the body of the request file of request id f cannot be read as JSON,
\* the ERROR response written for it is addressed to the client of f (its file
\* name is that of the request file).
C8_ErrorResponseAddressed ==
  \A f \in Rids : (hread[f] = "unparseable" /\ nresp[f] > 0) => resp[f].name = "own"

NoResponseFor(k) == \A a \in 1..RetryAttempts : nresp[<<k, a>>] = 0

\* C10: every call that has been started ends with a result, success or a
\* failure with its error; when the processor produced no response the result is
\* the timeout failure after the last attempt.
C10_CallTerminates ==
  \A k \in Calls :
    (cpc[k] = "writing") ~>
      (/\ cpc[k] = "done"
       /\ cres[k].success \/ cres[k].error \in {"timeout", "error", "lost"}
       /\ NoResponseFor(k) =>
            (~cres[k].success /\ cres[k].error = "timeout" /\ catt[k] = retry_attempts))

\* a call has ended with the timeout failure after two attempts without any response
C10_Witness ==
  /\ retry_attempts = 2
  /\ cpc["k1"] = "done" /\ catt["k1"] = 2 /\ cres["k1"].error = "timeout"
  /\ NoResponseFor("k1")

\* the attempts of call k for which a request file was written
RequestsWritten(k) == {a \in 1..RetryAttempts : reqf[<<k, a>>] # "absent"}

\* attempt a of call k returned a SUCCESS response
AttemptSucceeded(k, a) ==
  cgot[<<k, a>>] = <<k, a>> /\ resp[<<k, a>>].status = "SUCCESS"

\* C11: a call makes its attempts one at a time, a new one only after the attempts
\* before it have failed and after the retry delay; a call that has ended in
\* failure has written exactly retry_attempts request files and its result carries
\* that number and the error of the last attempt; a call that has succeeded wrote
\* no request after the successful attempt.
C11_RetryPolicy ==
  /\ [](\A k \in Calls :
          /\ RequestsWritten(k) \subseteq 1..catt[k]
          /\ \A a \in 1..RetryAttempts : a < catt[k] => ~AttemptSucceeded(k, a)
          /\ (cpc[k] = "done" /\ ~cres[k].success) =>
               /\ RequestsWritten(k) = 1..retry_attempts
               /\ cres[k].attempts = Cardinality(RequestsWritten(k))
               /\ RequestsWritten(k) # {} => cres[k].error \in {"timeout", "error", "lost"}
          /\ (cpc[k] = "done" /\ cres[k].success) =>
               /\ AttemptSucceeded(k, catt[k])
               /\ RequestsWritten(k) = 1..catt[k])
  /\ [][\A k \in Calls :
          catt'[k] # catt[k] => (cpc[k] = "delay" /\ catt'[k] = catt[k] + 1)]_vars

\* a call of two attempts has ended in failure: the first attempt got an ERROR
\* response, the second timed out
C11_Witness ==
  /\ retry_attempts = 2
  /\ cpc["k1"] = "done" /\ ~cres["k1"].success
  /\ cgot[<<"k1", 1>>] = <<"k1", 1>> /\ resp[<<"k1", 1>>].status = "ERROR"
  /\ cres["k1"].error = "timeout" /\ cres["k1"].attempts = 2

\* C12: a response whose callback starts when the entry of its request id has been
\* removed (the wait for it timed out) is unlinked without touching any entry, and
\* no attempt ever returns it; the callback raises nothing.
C12_LateResponseIgnored ==
  /\ [][\A f \in Rids :
          (f \in c_queue /\ f \notin c_queue' /\ resp[f].st = "complete"
             /\ response_events[f] = "none")
          => /\ cb'[f] = "unmatched"
             /\ resp'[f].st = "deleted"
             /\ UNCHANGED <<response_events, pending_requests, cgot, cbad>>]_vars
  /\ [](\A f \in Rids : cb[f] = "unmatched" =>
          /\ resp[f].st = "deleted"
          /\ \A g \in Rids : cgot[g] # f /\ pending_requests[g].from # f)

\* the response of the first attempt was handled while the second attempt of the
\* same call was waiting, and that attempt is still waiting
C12_Witness ==
  /\ cb[<<"k1", 1>>] = "unmatched" /\ resp[<<"k1", 1>>].st = "deleted"
  /\ catt["k1"] = 2 /\ cpc["k1"] = "wait" /\ response_events[<<"k1", 2>>] = "clear"

\* C13: at most one worker is inside execute_request, and it holds the lock; while
\* a TRANSACTION is between BEGIN and COMMIT the committed rows are those it found
\* when it entered, and a request that enters sees only committed rows.
C13_OneRequestInside ==
  /\ \A t, u \in Workers : (epc[t] # "idle" /\ epc[u] # "idle") => t = u
  /\ \A t \in Workers :
       /\ epc[t] # "idle" => lock = t
       /\ epc[t] = "tx" => db.rows = epre[t]
       /\ epc[t] = "op" => conn[t].work = db

\* one worker is inside a TRANSACTION with uncommitted changes after the other
\* worker has executed a request
C13_Witness ==
  /\ epc["w1"] = "tx" /\ conn["w1"].work.rows # db.rows
  /\ epc["w2"] = "idle" /\ eres["w2"] = "SUCCESS"

\* C14: execute_request never ends with an exception: every call returns SUCCESS
\* or ERROR.
C14_NeverRaises ==
  \A t \in Workers : eres[t] \in {"none", "SUCCESS", "ERROR"}

\* C15: a request file that cannot be parsed or lacks a required key, once handled
\* (and the response file could be opened), has one ERROR response written for it;
\* and after such a failure the valid request file of a client, submitted to the
\* pool, is still handled and answered.
C15_ErrorsDoNotStop ==
  /\ [](\A f \in ReqFiles :
          (hst[f] = "done" /\ ~iofail[f] /\ hread[f] \in {"unparseable", "nokeys"})
          => (nresp[f] = 1 /\ resp[f].status = "ERROR"
                /\ resp[f].st \in {"complete", "deleted"}))
  /\ LET f == <<"k1", 1>>
     IN (hst[AlienFile] = "done" /\ f \in p_queue /\ reqf[f] = "valid")
          ~> (hst[f] = "done" /\ (iofail[f] \/ nresp[f] = 1))

\* a file that is no JSON got its ERROR response, and the valid request of a
\* client handled by the same processor was executed and answered
C15_Witness ==
  /\ hst[AlienFile] = "done" /\ hread[AlienFile] = "unparseable"
  /\ resp[AlienFile].status = "ERROR" /\ resp[AlienFile].st = "complete"
  /\ hst[<<"k1", 1>>] = "done" /\ hread[<<"k1", 1>>] = "valid"
  /\ resp[<<"k1", 1>>].status = "SUCCESS"

\* C16: when the notification sink raised for a request the engine had executed
\* with SUCCESS, the response written for the request has status SUCCESS, it is
\* written (unless the response file cannot be opened) and the request file is
\* deleted.
C16_SinkFailureHarmless ==
  \A f \in ReqFiles :
    (hnote[f] # "none" /\ hst[f] = "done" /\ ~iofail[f])
    => (nresp[f] = 1 /\ resp[f].status = "SUCCESS" /\ reqf[f] = "deleted")

\* C17: when execute_request returns for a request with id R, sync_log holds
\* exactly one row for R and its status is the returned status; no id ever has
\* two rows.
C17_OneLogRow ==
  /\ [](\A r \in ReqIds : Len(db.log[r]) <= 1)
  /\ [][\A t \in Workers :
          (epc[t] # "idle" /\ epc'[t] = "idle" /\ eres'[t] # "RAISED")
          => /\ Len(db'.log[ereq[t].request_id]) = 1
             /\ db'.log[ereq[t].request_id][1] = eres'[t]]_vars

\* both workers have executed a request with id 1, the first returned SUCCESS,
\* the second ERROR, and the one row of id 1 says ERROR
C17_Witness ==
  /\ eres["w1"] = "SUCCESS" /\ eres["w2"] = "ERROR"
  /\ epc["w1"] = "idle" /\ epc["w2"] = "idle"
  /\ db.log[1] = <<"ERROR">> /\ db.log[2] = <<>>

\* C19: when stop_monitoring has returned no callback is queued or in flight, the
\* observer thread handles no file, and from then on no callback starts and no
\* file is taken up.
C19_StopDrains ==
  /\ [](wpc = "stopped" => (wqueue = {} /\ hfile = NoFile /\ wevents = {}))
  /\ [][wpc = "stopped" =>
          UNCHANGED <<wcalls, wqueue, processed_files, hfile, wevents>>]_vars

\* stop_monitoring has returned after a callback ran, and a file written since is
\* in the folder untouched
C19_Witness ==
  /\ wpc = "stopped"
  /\ \E f, g \in Files :
       /\ wcalls[f] = 1
       /\ Complete(g) /\ g \notin processed_files /\ wcalls[g] = 0

\* C18: when SyncProcessor.stop() has returned, no request is queued or being
\* handled and no response file is half-written; from then on no request file is
\* accepted or handled.
C18_StopFinishesRequests ==
  /\ [](prun = "stopped" =>
          /\ p_queue = {}
          /\ \A f \in ReqFiles : hst[f] \in {"none", "done"} /\ resp[f].st # "partial")
  /\ [][prun = "stopped" => UNCHANGED <<p_processed, p_queue, hst, hcount, nresp>>]_vars

\* stop() has returned after the request of the client was answered; a request
\* file written since lies in the folder and is not accepted
C18_Witness ==
  /\ prun = "stopped"
  /\ hst[<<"k1", 1>>] = "done" /\ nresp[<<"k1", 1>>] = 1
  /\ reqf[AlienFile] \notin {"absent", "deleted"} /\ AlienFile \notin p_processed

\* C20: a single UPDATE or DELETE never raises, and one whose WHERE matched no
\* row returns SUCCESS with rows_affected = 0 once its log row is written.
C20_NoMatchIsSuccess ==
  [][\A t \in Workers :
       /\ (epc[t] = "op" /\ ereq[t].operation \in {"UPDATE", "DELETE"} /\ epc'[t] # "op")
            => epc'[t] = "log"
       /\ (epc[t] = "log" /\ ereq[t].operation \in {"UPDATE", "DELETE"}
              /\ edata[t].matched = 0 /\ epc'[t] = "idle")
            => (eres'[t] = "SUCCESS" /\ edata'[t].rows_affected = 0
                  /\ db'.rows = epre[t])]_vars

\* an UPDATE or DELETE that matched no row has returned SUCCESS with
\* rows_affected = 0 while the table holds a row under another key
C20_Witness ==
  \E t \in Workers :
    /\ epc[t] = "idle" /\ eres[t] = "SUCCESS"
    /\ edata[t].matched = 0 /\ edata[t].rows_affected = 0
    /\ \E k \in Keys : db.rows[k] # NoRow

\* C21: find_one that returns success carries None when no row matches the where
\* map, and otherwise the first matching row itself, not a list.
C21_FindOne ==
  (qpc = "idle" /\ qreq.method = "find_one" /\ qres.success) =>
    LET found == Fetch(qtable, qreq.sent, 1)
    IN IF found = <<>>
       THEN qres.data = Data("None", <<>>)
       ELSE qres.data = Data("row", found)

\* C22: exists that returns success carries True if and only if at least one row
\* matches the where map, and False when none does.
C22_Exists ==
  (qpc = "idle" /\ qreq.method = "exists" /\ qres.success) =>
    qres.data = Data(IF WhereMatches(qtable, qreq.sent) # {} THEN "True" ELSE "False", <<>>)

\* C23 as stated: an UPDATE or DELETE with an empty where map, once executed,
\* returns SUCCESS with rows_affected the number of rows of the table.
C23_EmptyWhereMatchesAll ==
  [][(qpc = "sent" /\ qreq.method \in {"update", "delete"} /\ qreq.where = WhereEmpty
        /\ qres'.status # "none")
     => /\ qres'.success
        /\ qres'.data.kind = "affected"
        /\ Len(qres'.data.items) = Cardinality({k \in Keys : qtable[k] # NoRow})]_vars

\* C23: an UPDATE or DELETE with an empty where map is refused: the result is a
\* failure (status ERROR when the request was executed) and no row of the table
\* is changed.
C23_EmptyWhereRefused ==
  [][(qpc = "sent" /\ qreq.method \in {"update", "delete"} /\ qreq.where = WhereEmpty)
     => /\ ~qres'.success
        /\ qres'.status \in {"ERROR", "none"}
        /\ qtable' = qtable]_vars

\* a delete with an empty where map was executed on a table that holds rows and
\* came back with ERROR
C23_Witness ==
  /\ qpc = "answered" /\ qreq.method = "delete" /\ qreq.where = WhereEmpty
  /\ qres.status = "ERROR"
  /\ \A k \in Keys : qtable[k] # NoRow

\* C24: of the requests one call has written, at most one is executed by the
\* processor with SUCCESS (the operation of the call is applied at most once).
C24_AppliedAtMostOnce ==
  \A k \in Calls :
    Cardinality({a \in 1..RetryAttempts :
                   nresp[<<k, a>>] > 0 /\ resp[<<k, a>>].status = "SUCCESS"}) <= 1

\* the attempt with request id f has returned to _execute_with_retry
Returned(f) ==
  \/ catt[f[1]] > f[2]
  \/ catt[f[1]] = f[2] /\ cpc[f[1]] \in {"delay", "done"}

\* C25: once an attempt has returned, neither _response_events nor
\* _pending_requests holds an entry for its request id.
C25_NoEntryAfterReturn ==
  \A f \in Rids :
    Returned(f) => (response_events[f] = "none" /\ pending_requests[f] = NoResp)

\* C26: the outcome of an attempt is final: after an attempt has returned without
\* a response (timed out) nothing is stored or signalled under its request id, and
\* a response the handler accepted for a pending attempt is the one its caller
\* returned.
C26_OutcomeFinal ==
  /\ [][\A f \in Rids :
          (Returned(f) /\ cgot[f] = NoRid)
          => (pending_requests'[f] = pending_requests[f]
                /\ response_events'[f] = response_events[f])]_vars
  /\ [](\A f \in Rids :
          (Returned(f) /\ cb[f] \in {"set", "keyerror"}) => cgot[f] = f)

\* C27: a response that lies complete in the responses folder while the attempt
\* it answers is pending, with the response monitor started, is on its way to the
\* attempt: its callback is queued or running, or the monitor will still take it
\* up (an unhandled event in watchdog mode, the next scan in polling mode).
C27_EarlyResponseFulfils ==
  \A f \in Rids :
    (resp[f].st = "complete" /\ resp[f].name = "own"
       /\ response_events[f] = "clear" /\ cmon = "on")
    => \/ f \in c_queue
       \/ cb[f] = "found"
       \/ c_watchdog /\ f \in c_events /\ f \notin c_processed
       \/ ~c_watchdog /\ f \notin c_processed

\* C28: a file stays eligible for dispatch until it is dispatched: a name in
\* the ProcessedFileSet belongs to a file whose completion check is running, whose
\* callback is queued, or whose callback has run.
C28_RemainsEligible ==
  \A f \in Files :
    f \in processed_files => (hfile = f \/ f \in wqueue \/ wcalls[f] > 0)

\* C29: the watchdog path and the polling path dispatch the same files and differ
\* in latency only: whenever the monitor is at rest (no event unhandled, no
\* completion check running, no callback queued, nothing left for a scan) every
\* completely written file of the folder has been dispatched once, in either mode,
\* and no file was dispatched half-written.
C29_PathsDispatchSame ==
  (/\ wpc \in {"observing", "polling"}
   /\ wevents = {} /\ hfile = NoFile /\ wqueue = {}
   /\ wpc = "polling" => ScanFound = {})
  => \A f \in Files : (Complete(f) => wcalls[f] = 1) /\ ~wpartial[f]

\* C30: once a response with status SUCCESS has been written for a request, the
\* response file of the request keeps that status: no ERROR response is written
\* over it or after it.
C30_SuccessResponseStays ==
  [][\A f \in ReqFiles :
       (nresp[f] > 0 /\ resp[f].status = "SUCCESS") => resp'[f].status = "SUCCESS"]_vars

\* C31: when execute_request returns ERROR the rows of the database are those it
\* had when the request was entered: no change of the request is visible.
C31_ErrorLeavesNoChange ==
  [][\A t \in Workers :
       (epc[t] = "errlog" /\ epc'[t] = "idle" /\ eres'[t] = "ERROR")
       => db'.rows = epre[t]]_vars

\* C32: a response file is unlinked by the callback of the client it is addressed
\* to, never by that of a client with another id.
C32_OnlyOwnResponses ==
  \A c \in ClientIds, r \in ShareRids : staken[<<c, r>>] \in {NoClient, c}

\* C33: a call that has returned has written at least one request file, and its
\* result is that of an attempt: success, or the error of an attempt.
C33_AtLeastOneAttempt ==
  \A k \in Calls :
    cpc[k] = "done" =>
      /\ RequestsWritten(k) # {}
      /\ cres[k].success \/ cres[k].error \in {"timeout", "error", "lost"}

\* C34: a request file the processor has deleted, when a response file for it
\* could be named and opened, has its response completely written; and no
\* response is written for a request after its file was deleted.
C34_ResponseBeforeDelete ==
  /\ [](\A f \in ReqFiles :
          (ndel[f] > 0 /\ ~iofail[f] /\ hread[f] # "nonobject")
          => (nresp[f] > 0 /\ resp[f].st \in {"complete", "deleted"}))
  /\ [][\A f \in ReqFiles : ndel[f] > 0 => nresp'[f] = nresp[f]]_vars

\* a request file that was no JSON has been deleted after the ERROR response
\* for it was written, and the request of a client after its SUCCESS response,
\* which the client has not consumed yet
C34_Witness ==
  /\ ndel[AlienFile] = 1 /\ hread[AlienFile] = "unparseable"
  /\ resp[AlienFile].st = "complete" /\ resp[AlienFile].name = "unknown"
  /\ ndel[<<"k1", 1>>] = 1 /\ reqf[<<"k1", 1>>] = "deleted"
  /\ resp[<<"k1", 1>>].st = "complete" /\ resp[<<"k1", 1>>].status = "SUCCESS"

\* C35: a callback that raises changes nothing of the monitor but its own entry:
\* the monitor keeps its position and mode, the unhandled events, the file under
\* the completion check, the ProcessedFileSet and the other queued callbacks stay,
\* and no other callback is counted.
C35_CallbackErrorContained ==
  [][\A f \in Files :
       (wcalls'[f] > wcalls[f] /\ ~Complete(f))
       => /\ wpc' = wpc /\ use_watchdog' = use_watchdog
          /\ wevents' = wevents /\ hfile' = hfile
          /\ processed_files' = processed_files
          /\ wqueue' = wqueue \ {f}
          /\ \A g \in Files \ {f} : wcalls'[g] = wcalls[g]]_vars

\* the callback of file 1 raised on the half-written file, which is still
\* half-written; the observer runs and file 2, fully written, was dispatched
C35_Witness ==
  /\ wpartial[1] /\ wcalls[1] = 1 /\ ~Complete(1)
  /\ wpc = "observing"
  /\ wcalls[2] = 1 /\ ~wpartial[2] /\ Complete(2)

\* C36: the loop of a TRANSACTION takes the sub-operations in list order: iteration
\* i executes the i-th sub-operation of the list on the rows the earlier ones left;
\* when it raises the loop ends there with nothing after it executed, and otherwise
\* the next iteration is i + 1.  The j-th entry of results carries index j, the
\* type and the data of the j-th sub-operation, and a committed transaction has
\* one entry per sub-operation.
C36_ListOrder ==
  /\ [](/\ \A j \in 1..Len(txresults) :
              /\ j <= Len(txops)
              /\ txresults[j].operation_index = j
              /\ txresults[j].type = txops[j].type
              /\ txresults[j].key = txops[j].key
        /\ txpc = "committed" => Len(txresults) = Len(txops)
        /\ txpc \in {"loop", "failed"} => Len(txresults) = txi - 1)
  /\ [][/\ (txpc = "loop" /\ txi <= Len(txops)) =>
             LET op == txops[txi]
             IN IF OpRaises(op.type, txconn.work.rows, op.key)
                THEN txpc' = "failed" /\ txi' = txi /\ txresults' = txresults
                ELSE /\ txpc' = "loop" /\ txi' = txi + 1
                     /\ txconn'.work.rows = OpApply(op.type, txconn.work.rows, op.key)
        /\ txpc = "failed" => UNCHANGED txVars]_vars

\* a transaction that inserted a row, updated it and deleted it has committed
C36_Witness ==
  /\ txpc = "committed" /\ Len(txops) = 3
  /\ txops[1].type = "INSERT" /\ txops[2].type = "UPDATE" /\ txops[3].type = "DELETE"
  /\ \A j \in 1..3 : txops[j].key = 1
  /\ Len(txresults) = 3
  /\ txresults[2].result.rows_affected = 1

\* C37: a TRANSACTION whose list holds a sub-operation of a type other than
\* INSERT, UPDATE, DELETE and SELECT never commits: the loop does not get past
\* that sub-operation, the committed content of the database stays what it was,
\* and once the transaction has raised the connection holds no change of the
\* sub-operations executed before.
C37_UnsupportedTypeFails ==
  LET unsupported == {i \in 1..Len(txops) :
                        txops[i].type \in SubOpTypes \ {"INSERT", "UPDATE", "DELETE",
                                                        "SELECT", "MISSING"}}
  IN unsupported # {} =>
       /\ txpc # "committed"
       /\ txdb = EmptyDb
       /\ \E i \in unsupported : txi <= i
       /\ txpc = "failed" => (txconn.work = EmptyDb /\ ~txconn.in_tx)

\* the transaction inserted a row and updated it, then raised on a third
\* sub-operation of type SQL: the row is gone
C37_Witness ==
  /\ txpc = "failed" /\ Len(txops) = 3 /\ txi = 3
  /\ txops[1].type = "INSERT" /\ txops[2].type = "UPDATE" /\ txops[3].type = "SQL"
  /\ txops[1].key = 1 /\ txops[2].key = 1
  /\ txresults[2].result.rows_affected = 1
  /\ txconn.work.rows = EmptyRows /\ txdb.rows = EmptyRows

\* C39: start_monitoring submits the callback of every file that is in the folder
\* and not in the ProcessedFileSet when it is called, and records the file in the
\* set; when it has done so the notification source is not observing yet and has
\* delivered no event.
C39_ExistingFilesScheduled ==
  [][(wpc = "new" /\ wpc' # "new") =>
       /\ wpc' = "scanned" /\ ~wobserver' /\ wevents' = {}
       /\ \A f \in Files :
            (Exists(f) /\ f \notin processed_files)
            => (f \in wqueue' /\ f \in processed_files')]_vars

\* start_monitoring found a fully written file and a half-written one: both
\* callbacks are submitted, none has run, the observer is not started
C39_Witness ==
  /\ wpc = "scanned" /\ ~wobserver
  /\ Complete(1) /\ Exists(2) /\ ~Complete(2)
  /\ wqueue = {1, 2} /\ processed_files = {1, 2}
  /\ \A f \in Files : wcalls[f] = 0

C38_PoolBounds ==
  /\ [](/\ Cardinality(pl_prunning) <= max_concurrent_requests
        /\ Cardinality(pl_wrunning) <= WatcherPoolSize
        /\ \A f \in 1..pl_detected :
             \/ \E i \in 1..Len(pl_wqueue) : pl_wqueue[i] = f
             \/ \E i \in 1..Len(pl_pqueue) : pl_pqueue[i] = f
             \/ f \in pl_wrunning \cup pl_prunning \cup pl_handled)
  /\ \A f \in 1..MaxDetected : (pl_detected >= f) ~> (f \in pl_handled)

\* five callbacks are running while the callback of a sixth file waits in the
\* queue of the monitor's pool
C38_Witness ==
  /\ Cardinality(pl_wrunning) = WatcherPoolSize
  /\ pl_wqueue # <<>>
  /\ pl_detected = WatcherPoolSize + 1

====
